---- MODULE Spec2Model ----
(***************************************************************************)
(* AudioStreamBuilder::build() of libaaudio: policy resolution, the        *)
(* MMAP / legacy decision, open with one legacy fallback, and the hand-off *)
(* of the reference counted stream to the C caller.                        *)
(* Source: src/media/libaaudio/src/core/AudioStreamBuilder.cpp             *)
(***************************************************************************)
EXTENDS Integers, Sequences, FiniteSets

(* ---------------------------------------------------------------------- *)
(* Bounds                                                                  *)
(* ---------------------------------------------------------------------- *)

\* Most devices the policy provider reports on (one AudioMMapPolicyInfo per
\* device) when the whole request is explored.
MaxDevices == 2

\* Most devices the provider reports on when the policy resolution is explored.
MaxPolicyInfos == 3

(* ---------------------------------------------------------------------- *)
(* Values                                                                  *)
(* ---------------------------------------------------------------------- *)

AAUDIO_OK == "AAUDIO_OK"
AAUDIO_ERROR_NULL == "AAUDIO_ERROR_NULL"
AAUDIO_ERROR_ILLEGAL_ARGUMENT == "AAUDIO_ERROR_ILLEGAL_ARGUMENT"
AAUDIO_ERROR_OUT_OF_RANGE == "AAUDIO_ERROR_OUT_OF_RANGE"

\* aaudio_policy_t
AAUDIO_UNSPECIFIED == "AAUDIO_UNSPECIFIED"
AAUDIO_POLICY_NEVER == "AAUDIO_POLICY_NEVER"
AAUDIO_POLICY_AUTO == "AAUDIO_POLICY_AUTO"
AAUDIO_POLICY_ALWAYS == "AAUDIO_POLICY_ALWAYS"

AAUDIO_MMAP_POLICY_DEFAULT == AAUDIO_POLICY_NEVER
AAUDIO_MMAP_EXCLUSIVE_POLICY_DEFAULT == AAUDIO_POLICY_NEVER

FRAMES_PER_DATA_CALLBACK_MIN == 1
FRAMES_PER_DATA_CALLBACK_MAX == 1024 * 1024

\* mFramesPerDataCallback != AAUDIO_UNSPECIFIED compares with the sentinel 0.
FramesUnspecified == 0

\* android::media::audio::common::AudioMMapPolicy
AudioMMapPolicy == {"UNSPECIFIED", "NEVER", "AUTO", "ALWAYS"}

\* Values AudioGlobal_getMMapPolicy() returns.
GlobalPolicies ==
    {AAUDIO_UNSPECIFIED, AAUDIO_POLICY_NEVER, AAUDIO_POLICY_AUTO, AAUDIO_POLICY_ALWAYS}

\* Request fields as the setters of the builder can leave them.
Directions == {"INPUT", "OUTPUT", "BAD_DIRECTION"}
SharingModes == {"EXCLUSIVE", "SHARED"}
PerformanceModes == {"NONE", "POWER_SAVING", "LOW_LATENCY", "BAD_MODE"}
SessionIds == {"SESSION_ID_NONE", "SESSION_ID_ALLOCATE", "SESSION_ID_1"}
InputPresets == {"GENERIC", "CAMCORDER", "VOICE_COMMUNICATION"}
PrivacyRequests ==
    {"PRIVACY_SENSITIVE_DEFAULT", "PRIVACY_SENSITIVE_DISABLED", "PRIVACY_SENSITIVE_ENABLED"}
FramesValues ==
    {-1, FramesUnspecified, FRAMES_PER_DATA_CALLBACK_MIN,
     FRAMES_PER_DATA_CALLBACK_MAX, FRAMES_PER_DATA_CALLBACK_MAX + 1}

\* Errors AudioStream::open() of a backend can return.
OpenErrors ==
    {"AAUDIO_ERROR_UNAVAILABLE", "AAUDIO_ERROR_NO_SERVICE", AAUDIO_ERROR_ILLEGAL_ARGUMENT}
OpenResults == {AAUDIO_OK} \cup OpenErrors

\* Errors of the inherited checks on the parameters this file does not look at.
ParamsResults == {AAUDIO_OK, "AAUDIO_ERROR_INVALID_FORMAT"}

\* Vectors the policy provider can fill in when it reports on n devices.
PolicyInfoLists(n) == [1..n -> AudioMMapPolicy]

\* Answers of AudioSystem::getMmapPolicyInfo().
ProviderStatus == {"NO_ERROR", "FAILED"}

\* Pointer values: no object, a value left in the slot by the caller, or the
\* index of a stream object in streams.
nullptr == 0
StalePtr == -1

\* A local of build() that is not yet declared.
Undeclared == "undeclared"

VARIABLES
    \* the request (AudioStreamBuilder, an AAudioStreamParameters)
    mDirection, mSharingMode, mPerformanceMode, mSessionId, mInputPreset,
    mPrivacySensitiveReq, mPrivacySensitive, mFramesPerDataCallback,
    paramsResult,
    \* process-wide override (AudioGlobal_getMMapPolicy)
    gMMapPolicy,
    \* the number of devices the policy provider reports on
    numDevices,
    \* the caller's output slot
    streamPtrIsNull, outStream,
    \* build(): position and locals
    pc, result, retval, policyInfos, providerStatus, mmapPolicy,
    mmapExclusivePolicy, sharingMode, allowMMap, allowLegacy, audioStream,
    \* the heap of stream objects and the calls made on collaborators
    streams, openLog, createLog,
    \* whether line 173 logged "EXCLUSIVE sharing mode not supported. Use SHARED."
    loggedUseShared,
    \* the C caller's position in stopUsingStream(), and a second holder of the
    \* stream on another thread
    callerPc, holderPc

request ==
    <<mDirection, mSharingMode, mPerformanceMode, mSessionId, mInputPreset,
      mPrivacySensitiveReq, mPrivacySensitive, mFramesPerDataCallback, paramsResult>>
locals ==
    <<result, retval, policyInfos, providerStatus, mmapPolicy, mmapExclusivePolicy,
      sharingMode, allowMMap, allowLegacy, audioStream>>
owners == <<callerPc, holderPc>>
vars ==
    <<request, gMMapPolicy, numDevices, streamPtrIsNull, outStream, pc, locals,
      streams, openLog, createLog, loggedUseShared, owners>>

(* ---------------------------------------------------------------------- *)
(* Pure helpers                                                            *)
(* ---------------------------------------------------------------------- *)

aidl2legacy_aaudio_policy(aidl) ==
    CASE aidl = "NEVER" -> AAUDIO_POLICY_NEVER
      [] aidl = "AUTO" -> AAUDIO_POLICY_AUTO
      [] aidl = "ALWAYS" -> AAUDIO_POLICY_ALWAYS
      [] OTHER -> AAUDIO_UNSPECIFIED

\* getAAudioPolicy whose loop stops one entry short of the end.
getAAudioPolicy_ShortLoop(infos) ==
    IF Len(infos) = 0 THEN AAUDIO_POLICY_AUTO
    ELSE IF \E i \in 2..(Len(infos) - 1) : infos[i] # infos[1] THEN AAUDIO_POLICY_AUTO
    ELSE aidl2legacy_aaudio_policy(infos[1])

getAAudioPolicy(infos) ==
    IF Len(infos) = 0 THEN AAUDIO_POLICY_AUTO
    ELSE IF \E i \in 2..Len(infos) : infos[i] # infos[1] THEN AAUDIO_POLICY_AUTO
    ELSE aidl2legacy_aaudio_policy(infos[1])

\* AAudioStreamParameters::validate(): rejects an unknown direction, and
\* whatever else it finds wrong with the parameters checked there.
ParamsValidate(direction, other) ==
    IF direction \notin {"INPUT", "OUTPUT"} THEN AAUDIO_ERROR_ILLEGAL_ARGUMENT
    ELSE other

\* validate() with the upper limit of line 279 taken as exclusive.
validate_MaxExclusive(direction, other, performanceMode, framesPerDataCallback) ==
    LET base == ParamsValidate(direction, other) IN
    IF base # AAUDIO_OK THEN base
    ELSE IF performanceMode \notin {"NONE", "POWER_SAVING", "LOW_LATENCY"}
        THEN AAUDIO_ERROR_ILLEGAL_ARGUMENT
    ELSE IF /\ framesPerDataCallback # FramesUnspecified
            /\ \/ framesPerDataCallback < FRAMES_PER_DATA_CALLBACK_MIN
               \/ framesPerDataCallback >= FRAMES_PER_DATA_CALLBACK_MAX
        THEN AAUDIO_ERROR_OUT_OF_RANGE
    ELSE AAUDIO_OK

validate(direction, other, performanceMode, framesPerDataCallback) ==
    LET base == ParamsValidate(direction, other) IN
    IF base # AAUDIO_OK THEN base
    ELSE IF performanceMode \notin {"NONE", "POWER_SAVING", "LOW_LATENCY"}
        THEN AAUDIO_ERROR_ILLEGAL_ARGUMENT
    ELSE IF /\ framesPerDataCallback # FramesUnspecified
            /\ \/ framesPerDataCallback < FRAMES_PER_DATA_CALLBACK_MIN
               \/ framesPerDataCallback > FRAMES_PER_DATA_CALLBACK_MAX
        THEN AAUDIO_ERROR_OUT_OF_RANGE
    ELSE AAUDIO_OK

\* Lines 149-158 with the provider asked, and believed, before the API setting.
ResolveMMapPolicy_ProviderFirst(global, status, infos) ==
    LET fromProvider ==
            IF status = "NO_ERROR" THEN getAAudioPolicy(infos) ELSE global
    IN IF fromProvider = AAUDIO_UNSPECIFIED THEN AAUDIO_MMAP_POLICY_DEFAULT
       ELSE fromProvider

\* Lines 147-158 with a failed provider query treated as an empty answer.
ResolveMMapPolicy_FailureAsEmpty(global, status, infos) ==
    LET fromProvider ==
            IF global = AAUDIO_UNSPECIFIED
            THEN getAAudioPolicy(IF status = "NO_ERROR" THEN infos ELSE <<>>)
            ELSE global
    IN IF fromProvider = AAUDIO_UNSPECIFIED THEN AAUDIO_MMAP_POLICY_DEFAULT
       ELSE fromProvider

\* The general policy: API setting, then the provider, then the default.
ResolveMMapPolicy(global, status, infos) ==
    LET fromProvider ==
            IF global = AAUDIO_UNSPECIFIED /\ status = "NO_ERROR"
            THEN getAAudioPolicy(infos) ELSE global
    IN IF fromProvider = AAUDIO_UNSPECIFIED THEN AAUDIO_MMAP_POLICY_DEFAULT
       ELSE fromProvider

\* Lines 160-168 starting from the API setting, as lines 149-158 do.
ResolveMMapExclusivePolicy_WithOverride(status, infos) ==
    LET fromProvider ==
            IF gMMapPolicy = AAUDIO_UNSPECIFIED /\ status = "NO_ERROR"
            THEN getAAudioPolicy(infos) ELSE gMMapPolicy
    IN IF fromProvider = AAUDIO_UNSPECIFIED THEN AAUDIO_MMAP_EXCLUSIVE_POLICY_DEFAULT
       ELSE fromProvider

\* The exclusive policy: the provider, then the default.
ResolveMMapExclusivePolicy(status, infos) ==
    LET fromProvider ==
            IF status = "NO_ERROR" THEN getAAudioPolicy(infos) ELSE AAUDIO_UNSPECIFIED
    IN IF fromProvider = AAUDIO_UNSPECIFIED THEN AAUDIO_MMAP_EXCLUSIVE_POLICY_DEFAULT
       ELSE fromProvider

\* Lines 170-176 without the downgrade.
EffectiveSharingMode_NoDowngrade(requested, exclusivePolicy) == requested

\* Lines 170-176 with the downgrade applied whatever the exclusive policy is.
EffectiveSharingMode_AlwaysShared(requested, exclusivePolicy) == "SHARED"

\* Lines 170-176: the sharing mode after the EXCLUSIVE -> SHARED downgrade.
EffectiveSharingMode(requested, exclusivePolicy) ==
    IF requested = "EXCLUSIVE" /\ exclusivePolicy = AAUDIO_POLICY_NEVER
    THEN "SHARED" ELSE requested

\* AllowMMap without the session id test of lines 190-193.
AllowMMap_NoSessionCheck(policy, performanceMode, sessionId) ==
    /\ policy # AAUDIO_POLICY_NEVER
    /\ performanceMode = "LOW_LATENCY"

\* Lines 178-193.
AllowMMap(policy, performanceMode, sessionId) ==
    /\ policy # AAUDIO_POLICY_NEVER
    /\ performanceMode = "LOW_LATENCY"
    /\ sessionId = "SESSION_ID_NONE"

\* Line 179 with the legacy path always allowed.
AllowLegacy_Always(policy) == TRUE

AllowLegacy(policy) == policy # AAUDIO_POLICY_ALWAYS

\* Line 197.
NoBackendResult == AAUDIO_ERROR_ILLEGAL_ARGUMENT

\* Lines 200-211.
PrivacySensitive(req, preset) ==
    IF req = "PRIVACY_SENSITIVE_DEFAULT"
    THEN preset \in {"CAMCORDER", "VOICE_COMMUNICATION"}
    ELSE req = "PRIVACY_SENSITIVE_ENABLED"

\* builder_createStream: its result, and the class it instantiates.
CreateResult(direction) ==
    IF direction \in {"INPUT", "OUTPUT"} THEN AAUDIO_OK
    ELSE AAUDIO_ERROR_ILLEGAL_ARGUMENT

\* builder_createStream with the legacy classes of the two directions swapped.
CreateVariant_LegacySwapped(direction, tryMMap) ==
    IF direction = "INPUT"
    THEN IF tryMMap THEN "AudioStreamInternalCapture" ELSE "AudioStreamTrack"
    ELSE IF tryMMap THEN "AudioStreamInternalPlay" ELSE "AudioStreamRecord"

\* builder_createStream with the two directions exchanged.
CreateVariant_DirectionSwapped(direction, tryMMap) ==
    IF direction = "INPUT"
    THEN IF tryMMap THEN "AudioStreamInternalPlay" ELSE "AudioStreamTrack"
    ELSE IF tryMMap THEN "AudioStreamInternalCapture" ELSE "AudioStreamRecord"

CreateVariant(direction, tryMMap) ==
    IF direction = "INPUT"
    THEN IF tryMMap THEN "AudioStreamInternalCapture" ELSE "AudioStreamRecord"
    ELSE IF tryMMap THEN "AudioStreamInternalPlay" ELSE "AudioStreamTrack"

isMMap(variant) == variant \in {"AudioStreamInternalCapture", "AudioStreamInternalPlay"}

\* Line 220 without the isMMap test, and without the allowLegacy test.
RetryLegacy_IgnoreIsMMap(variant, legacyAllowed) == legacyAllowed

RetryLegacy_IgnorePolicy(variant, legacyAllowed) ==
    variant \in {"AudioStreamInternalCapture", "AudioStreamInternalPlay"}

\* Line 220.
RetryLegacy(variant, legacyAllowed) == isMMap(variant) /\ legacyAllowed

(* ---------------------------------------------------------------------- *)
(* Reference counting (android::sp / RefBase)                              *)
(* ---------------------------------------------------------------------- *)

\* deletes counts the times the object is deleted; zombie records an access
\* to the object after its deletion.
NewObject(variant) ==
    [variant |-> variant, strong |-> 0, destroyed |-> FALSE, deletes |-> 0,
     zombie |-> FALSE,
     opens |-> 0, opened |-> FALSE, registered |-> 0, logged |-> 0]

\* One atomic increment of the strong count.
incStrong(heap, p) ==
    [heap EXCEPT ![p].strong = @ + 1, ![p].zombie = @ \/ heap[p].destroyed]

\* One atomic decrement; the object is deleted by the decrement that brings
\* the count to zero.
decStrong(heap, p) ==
    [heap EXCEPT ![p].strong = @ - 1,
                 ![p].destroyed = @ \/ (heap[p].strong = 1),
                 ![p].deletes = @ + (IF heap[p].strong = 1 THEN 1 ELSE 0),
                 ![p].zombie = @ \/ heap[p].destroyed]

\* getStrongCount(): a read of the object.
getStrongCount(heap, p) ==
    [heap EXCEPT ![p].zombie = @ \/ heap[p].destroyed]

\* sp<>::operator= that forgets to release the object it held.
spAssign_NoRelease(heap, old, new) == incStrong(heap, new)

\* sp<T>::operator=(T*): take a reference on the new object, drop the old one.
spAssign(heap, old, new) ==
    LET taken == incStrong(heap, new) IN
    IF old = nullptr THEN taken ELSE decStrong(taken, old)

\* sp<T>::~sp().
spDestroy(heap, old) ==
    IF old = nullptr THEN heap ELSE decStrong(heap, old)

(* ---------------------------------------------------------------------- *)
(* Initial state: a builder as its setters left it, build() not yet called *)
(* ---------------------------------------------------------------------- *)

InitLocals ==
    /\ pc = "start"
    /\ result = Undeclared
    /\ retval = Undeclared
    /\ policyInfos = <<>>
    /\ providerStatus = Undeclared
    /\ mmapPolicy = Undeclared
    /\ mmapExclusivePolicy = Undeclared
    /\ sharingMode = Undeclared
    /\ allowMMap = FALSE
    /\ allowLegacy = FALSE
    /\ audioStream = nullptr
    /\ streams = <<>>
    /\ openLog = <<>>
    /\ createLog = <<>>
    /\ loggedUseShared = FALSE
    /\ callerPc = "idle"
    /\ holderPc = "none"

\* Frames-per-callback values around both limits and at the ends of int32_t.
FramesProbe ==
    {-2147483647 - 1, -2, -1, FramesUnspecified, FRAMES_PER_DATA_CALLBACK_MIN, 2,
     FRAMES_PER_DATA_CALLBACK_MAX - 1, FRAMES_PER_DATA_CALLBACK_MAX,
     FRAMES_PER_DATA_CALLBACK_MAX + 1, 2147483647}

\* Requests that differ in what validate() reads.
InitValidate ==
    /\ mDirection \in Directions
    /\ mSharingMode \in SharingModes
    /\ mPerformanceMode \in PerformanceModes
    /\ mSessionId = "SESSION_ID_NONE"
    /\ mInputPreset = "GENERIC"
    /\ mPrivacySensitiveReq = "PRIVACY_SENSITIVE_DEFAULT"
    /\ mPrivacySensitive = FALSE
    /\ mFramesPerDataCallback \in FramesProbe
    /\ paramsResult \in ParamsResults
    /\ gMMapPolicy \in GlobalPolicies
    /\ numDevices = 0
    /\ streamPtrIsNull = FALSE
    /\ outStream = nullptr
    /\ InitLocals

Init ==
    /\ mDirection \in Directions
    /\ mSharingMode \in SharingModes
    /\ mPerformanceMode \in PerformanceModes
    /\ mSessionId \in SessionIds
    /\ mInputPreset \in InputPresets
    /\ mPrivacySensitiveReq \in PrivacyRequests
    /\ mPrivacySensitive \in BOOLEAN
    /\ mFramesPerDataCallback \in FramesValues
    /\ paramsResult \in ParamsResults
    /\ gMMapPolicy \in GlobalPolicies
    /\ numDevices \in 0..MaxDevices
    /\ streamPtrIsNull \in BOOLEAN
    /\ outStream \in IF streamPtrIsNull THEN {nullptr} ELSE {nullptr, StalePtr}
    /\ InitLocals

\* The builders whose fields the policy resolution does not read are left at
\* their defaults; the provider reports on up to MaxPolicyInfos devices.
InitPolicy ==
    /\ mDirection \in Directions
    /\ mSharingMode \in SharingModes
    /\ mPerformanceMode \in PerformanceModes
    /\ mSessionId \in SessionIds
    /\ mInputPreset = "GENERIC"
    /\ mPrivacySensitiveReq = "PRIVACY_SENSITIVE_DEFAULT"
    /\ mPrivacySensitive = FALSE
    /\ mFramesPerDataCallback = FramesUnspecified
    /\ paramsResult = AAUDIO_OK
    /\ gMMapPolicy \in GlobalPolicies
    /\ numDevices \in 0..MaxPolicyInfos
    /\ streamPtrIsNull = FALSE
    /\ outStream = nullptr
    /\ InitLocals

(* ---------------------------------------------------------------------- *)
(* build()                                                                 *)
(* ---------------------------------------------------------------------- *)

\* build() without the *streamPtr = nullptr of line 138.
Build_Enter_NoClear ==
    /\ pc = "start"
    /\ IF streamPtrIsNull
       THEN /\ retval' = AAUDIO_ERROR_NULL
            /\ pc' = "done"
            /\ UNCHANGED result
       ELSE /\ result' = validate(mDirection, paramsResult, mPerformanceMode,
                                  mFramesPerDataCallback)
            /\ IF result' # AAUDIO_OK
               THEN retval' = result' /\ pc' = "done"
               ELSE retval' = retval /\ pc' = "mmapPolicy"
    /\ UNCHANGED <<request, gMMapPolicy, numDevices, streamPtrIsNull, outStream,
                   policyInfos, providerStatus, mmapPolicy, mmapExclusivePolicy,
                   sharingMode, allowMMap, allowLegacy, audioStream, streams,
                   openLog, createLog, loggedUseShared, owners>>

\* Lines 132-145: the null check, *streamPtr = nullptr, validate().
Build_Enter ==
    /\ pc = "start"
    /\ IF streamPtrIsNull
       THEN /\ retval' = AAUDIO_ERROR_NULL
            /\ pc' = "done"
            /\ UNCHANGED <<outStream, result>>
       ELSE /\ outStream' = nullptr
            /\ result' = validate(mDirection, paramsResult, mPerformanceMode,
                                  mFramesPerDataCallback)
            /\ IF result' # AAUDIO_OK
               THEN retval' = result' /\ pc' = "done"
               ELSE retval' = retval /\ pc' = "mmapPolicy"
    /\ UNCHANGED <<request, gMMapPolicy, numDevices, streamPtrIsNull, policyInfos, providerStatus,
                   mmapPolicy, mmapExclusivePolicy, sharingMode, allowMMap, allowLegacy,
                   audioStream, streams, openLog, createLog, loggedUseShared, owners>>

\* Lines 147-158. status and infos are what the provider answers when it is
\* asked; it is asked only when the API setting is unspecified, and a failed
\* query leaves the vector as it was.
Build_MMapPolicy ==
    /\ pc = "mmapPolicy"
    /\ \E status \in ProviderStatus :
       \E infos \in (IF status = "NO_ERROR" THEN PolicyInfoLists(numDevices)
                                           ELSE {policyInfos}) :
           /\ mmapPolicy' = ResolveMMapPolicy(gMMapPolicy, status, infos)
           /\ IF gMMapPolicy = AAUDIO_UNSPECIFIED
              THEN providerStatus' = status /\ policyInfos' = infos
              ELSE UNCHANGED <<providerStatus, policyInfos>>
    /\ pc' = "exclusivePolicy"
    /\ UNCHANGED <<request, gMMapPolicy, numDevices, streamPtrIsNull, outStream, result, retval,
                   mmapExclusivePolicy, sharingMode, allowMMap, allowLegacy,
                   audioStream, streams, openLog, createLog, loggedUseShared, owners>>

\* Lines 160-168: the vector is cleared, the provider is asked about the
\* exclusive axis.
Build_ExclusivePolicy ==
    /\ pc = "exclusivePolicy"
    /\ \E status \in ProviderStatus :
       \E infos \in (IF status = "NO_ERROR" THEN PolicyInfoLists(numDevices)
                                           ELSE {<<>>}) :
           /\ providerStatus' = status
           /\ policyInfos' = infos
           /\ mmapExclusivePolicy' = ResolveMMapExclusivePolicy(status, infos)
    /\ pc' = "decide"
    /\ UNCHANGED <<request, gMMapPolicy, numDevices, streamPtrIsNull, outStream, result, retval,
                   mmapPolicy, sharingMode, allowMMap, allowLegacy,
                   audioStream, streams, openLog, createLog, loggedUseShared, owners>>

\* Lines 170-198. setSharingMode() is called only for the downgrade, which
\* leaves the request equal to the local in both cases. policyInfos is not
\* read after line 164; the model drops its content here.
Build_Decide ==
    /\ pc = "decide"
    /\ sharingMode' = EffectiveSharingMode(mSharingMode, mmapExclusivePolicy)
    /\ mSharingMode' = sharingMode'
    /\ loggedUseShared' = (sharingMode' # mSharingMode)
    /\ allowMMap' = AllowMMap(mmapPolicy, mPerformanceMode, mSessionId)
    /\ allowLegacy' = AllowLegacy(mmapPolicy)
    /\ policyInfos' = <<>>
    /\ IF ~allowMMap' /\ ~allowLegacy'
       THEN retval' = NoBackendResult /\ pc' = "done"
       ELSE retval' = retval /\ pc' = "privacy"
    /\ UNCHANGED <<mDirection, mPerformanceMode, mSessionId, mInputPreset,
                   mPrivacySensitiveReq, mPrivacySensitive, mFramesPerDataCallback,
                   paramsResult, gMMapPolicy, numDevices, streamPtrIsNull, outStream, result,
                   providerStatus, mmapPolicy, mmapExclusivePolicy,
                   audioStream, streams, openLog, createLog, owners>>

\* Lines 200-211 without the reset of line 200.
Build_Privacy_NoReset ==
    /\ pc = "privacy"
    /\ mPrivacySensitive' =
           (mPrivacySensitive \/ PrivacySensitive(mPrivacySensitiveReq, mInputPreset))
    /\ pc' = "create"
    /\ UNCHANGED <<mDirection, mSharingMode, mPerformanceMode, mSessionId, mInputPreset,
                   mPrivacySensitiveReq, mFramesPerDataCallback, paramsResult,
                   gMMapPolicy, numDevices, streamPtrIsNull, outStream, locals,
                   streams, openLog, createLog, loggedUseShared, owners>>

\* Lines 200-211.
Build_Privacy ==
    /\ pc = "privacy"
    /\ mPrivacySensitive' = PrivacySensitive(mPrivacySensitiveReq, mInputPreset)
    /\ pc' = "create"
    /\ UNCHANGED <<mDirection, mSharingMode, mPerformanceMode, mSessionId, mInputPreset,
                   mPrivacySensitiveReq, mFramesPerDataCallback, paramsResult,
                   gMMapPolicy, numDevices, streamPtrIsNull, outStream, locals,
                   streams, openLog, createLog, loggedUseShared, owners>>

\* builder_createStream(direction, sharing, tryMMap, audioStream) called from
\* build(): the call is logged, and on a known direction a new object
\* replaces the one the sp held.
CreateStream(tryMMap) ==
    LET r == CreateResult(mDirection)
        new == Len(streams) + 1
    IN /\ result' = r
       /\ createLog' = Append(createLog,
              [direction |-> mDirection, sharingMode |-> sharingMode,
               tryMMap |-> tryMMap, result |-> r])
       /\ IF r = AAUDIO_OK
          THEN /\ streams' = spAssign(
                      Append(streams, NewObject(CreateVariant(mDirection, tryMMap))),
                      audioStream, new)
               /\ audioStream' = new
          ELSE UNCHANGED <<streams, audioStream>>

\* audioStream->open(*this): the backend decides the outcome.
OpenStream(r) ==
    /\ result' = r
    /\ streams' = [streams EXCEPT ![audioStream].opens = @ + 1,
                                  ![audioStream].opened = (r = AAUDIO_OK)]
    /\ openLog' = Append(openLog,
           [stream |-> audioStream, variant |-> streams[audioStream].variant,
            result |-> r])

\* Lines 213-215.
Build_Create ==
    /\ pc = "create"
    /\ CreateStream(allowMMap)
    /\ pc' = IF result' = AAUDIO_OK THEN "open" ELSE "return"
    /\ UNCHANGED <<request, gMMapPolicy, numDevices, streamPtrIsNull, outStream, retval,
                   policyInfos, providerStatus, mmapPolicy, mmapExclusivePolicy,
                   sharingMode, allowMMap, allowLegacy, openLog, loggedUseShared, owners>>

\* Lines 217-218.
Build_Open ==
    /\ pc = "open"
    /\ \E r \in OpenResults : OpenStream(r)
    /\ pc' = IF result' = AAUDIO_OK THEN "register" ELSE "openFailed"
    /\ UNCHANGED <<request, gMMapPolicy, numDevices, streamPtrIsNull, outStream, retval,
                   policyInfos, providerStatus, mmapPolicy, mmapExclusivePolicy,
                   sharingMode, allowMMap, allowLegacy, audioStream, createLog, loggedUseShared, owners>>

\* Lines 219-225 and the test of line 230 when no retry is made.
Build_OpenFailed ==
    /\ pc = "openFailed"
    /\ IF RetryLegacy(streams[audioStream].variant, allowLegacy)
       THEN /\ CreateStream(FALSE)
            /\ pc' = IF result' = AAUDIO_OK THEN "retryOpen" ELSE "return"
       ELSE /\ pc' = "return"
            /\ UNCHANGED <<result, streams, audioStream, createLog>>
    /\ UNCHANGED <<request, gMMapPolicy, numDevices, streamPtrIsNull, outStream, retval,
                   policyInfos, providerStatus, mmapPolicy, mmapExclusivePolicy,
                   sharingMode, allowMMap, allowLegacy, openLog, loggedUseShared, owners>>

\* Lines 223-227 without the test of the second open()'s result.
Build_RetryOpen_AlwaysRegister ==
    /\ pc = "retryOpen"
    /\ \E r \in OpenResults : OpenStream(r)
    /\ pc' = "register"
    /\ UNCHANGED <<request, gMMapPolicy, numDevices, streamPtrIsNull, outStream, retval,
                   policyInfos, providerStatus, mmapPolicy, mmapExclusivePolicy,
                   sharingMode, allowMMap, allowLegacy, audioStream, createLog,
                   loggedUseShared, owners>>

\* Lines 226-230.
Build_RetryOpen ==
    /\ pc = "retryOpen"
    /\ \E r \in OpenResults : OpenStream(r)
    /\ pc' = IF result' = AAUDIO_OK THEN "register" ELSE "return"
    /\ UNCHANGED <<request, gMMapPolicy, numDevices, streamPtrIsNull, outStream, retval,
                   policyInfos, providerStatus, mmapPolicy, mmapExclusivePolicy,
                   sharingMode, allowMMap, allowLegacy, audioStream, createLog, loggedUseShared, owners>>

\* Line 231.
Build_Register ==
    /\ pc = "register"
    /\ streams' = [streams EXCEPT ![audioStream].registered = @ + 1]
    /\ pc' = "log"
    /\ UNCHANGED <<request, gMMapPolicy, numDevices, streamPtrIsNull, outStream, locals,
                   openLog, createLog, loggedUseShared, owners>>

\* Line 232.
Build_Log ==
    /\ pc = "log"
    /\ streams' = [streams EXCEPT ![audioStream].logged = @ + 1]
    /\ pc' = "handoff"
    /\ UNCHANGED <<request, gMMapPolicy, numDevices, streamPtrIsNull, outStream, locals,
                   openLog, createLog, loggedUseShared, owners>>

\* Lines 240-247 without the incStrong of line 245.
startUsingStream_NoInc(heap, p) == heap

\* startUsingStream (lines 240-247): one more strong reference, the raw
\* pointer is returned.
startUsingStream(heap, p) == incStrong(heap, p)

\* Line 233.
Build_Handoff ==
    /\ pc = "handoff"
    /\ streams' = startUsingStream(streams, audioStream)
    /\ outStream' = audioStream
    /\ pc' = "return"
    /\ UNCHANGED <<request, gMMapPolicy, numDevices, streamPtrIsNull, locals, openLog, createLog, loggedUseShared, owners>>

\* Lines 234-238: audioStream goes out of scope, result is returned.
Build_Return ==
    /\ pc = "return"
    /\ streams' = spDestroy(streams, audioStream)
    /\ audioStream' = nullptr
    /\ retval' = result
    /\ pc' = "done"
    /\ UNCHANGED <<request, gMMapPolicy, numDevices, streamPtrIsNull, outStream, result,
                   policyInfos, providerStatus, mmapPolicy, mmapExclusivePolicy,
                   sharingMode, allowMMap, allowLegacy, openLog, createLog, loggedUseShared, owners>>

(* ---------------------------------------------------------------------- *)
(* stopUsingStream() and a second holder                                   *)
(* ---------------------------------------------------------------------- *)

\* The C caller holds the handle build() gave it.
CallerHasHandle == pc = "done" /\ retval = AAUDIO_OK

\* Line 251 with a temporary that takes no reference.
stopUsingStream_spCtor_NoInc(heap, p) == heap

\* Line 251: sp<AudioStream> spAudioStream(stream) takes a reference.
stopUsingStream_spCtor(heap, p) == incStrong(heap, p)

\* Line 253: spAudioStream->decStrong(nullptr).
stopUsingStream_decStrong(heap, p) == decStrong(heap, p)

\* Line 254: spAudioStream goes out of scope.
stopUsingStream_spDtor(heap, p) == spDestroy(heap, p)

StopUsingStream_Enter ==
    /\ CallerHasHandle
    /\ callerPc = "idle"
    /\ streams' = stopUsingStream_spCtor(streams, outStream)
    /\ callerPc' = "counted"
    /\ UNCHANGED <<request, gMMapPolicy, numDevices, streamPtrIsNull, outStream, pc,
                   locals, openLog, createLog, loggedUseShared, holderPc>>

\* Line 252.
StopUsingStream_Log ==
    /\ callerPc = "counted"
    /\ streams' = getStrongCount(streams, outStream)
    /\ callerPc' = "logged"
    /\ UNCHANGED <<request, gMMapPolicy, numDevices, streamPtrIsNull, outStream, pc,
                   locals, openLog, createLog, loggedUseShared, holderPc>>

StopUsingStream_DecStrong ==
    /\ callerPc = "logged"
    /\ streams' = stopUsingStream_decStrong(streams, outStream)
    /\ callerPc' = "decremented"
    /\ UNCHANGED <<request, gMMapPolicy, numDevices, streamPtrIsNull, outStream, pc,
                   locals, openLog, createLog, loggedUseShared, holderPc>>

StopUsingStream_Return ==
    /\ callerPc = "decremented"
    /\ streams' = stopUsingStream_spDtor(streams, outStream)
    /\ callerPc' = "released"
    /\ UNCHANGED <<request, gMMapPolicy, numDevices, streamPtrIsNull, outStream, pc,
                   locals, openLog, createLog, loggedUseShared, holderPc>>

\* Another thread takes a strong reference from the handle while the caller
\* still owns its own, and drops it at any later time.
Holder_Acquire ==
    /\ CallerHasHandle
    /\ callerPc = "idle"
    /\ holderPc = "none"
    /\ streams' = incStrong(streams, outStream)
    /\ holderPc' = "holding"
    /\ UNCHANGED <<request, gMMapPolicy, numDevices, streamPtrIsNull, outStream, pc,
                   locals, openLog, createLog, loggedUseShared, callerPc>>

Holder_Release ==
    /\ holderPc = "holding"
    /\ streams' = decStrong(streams, outStream)
    /\ holderPc' = "released"
    /\ UNCHANGED <<request, gMMapPolicy, numDevices, streamPtrIsNull, outStream, pc,
                   locals, openLog, createLog, loggedUseShared, callerPc>>

Next ==
    \/ Build_Enter
    \/ Build_MMapPolicy
    \/ Build_ExclusivePolicy
    \/ Build_Decide
    \/ Build_Privacy
    \/ Build_Create
    \/ Build_Open
    \/ Build_OpenFailed
    \/ Build_RetryOpen
    \/ Build_Register
    \/ Build_Log
    \/ Build_Handoff
    \/ Build_Return
    \/ StopUsingStream_Enter
    \/ StopUsingStream_Log
    \/ StopUsingStream_DecStrong
    \/ StopUsingStream_Return
    \/ Holder_Acquire
    \/ Holder_Release

Spec == Init /\ [][Next]_vars

SpecPolicy == InitPolicy /\ [][Next]_vars

SpecValidate == InitValidate /\ [][Next]_vars

(* ---------------------------------------------------------------------- *)
(* Properties                                                              *)
(* ---------------------------------------------------------------------- *)

FastPathVariants == {"AudioStreamInternalCapture", "AudioStreamInternalPlay"}
CompatVariants == {"AudioStreamRecord", "AudioStreamTrack"}

\* C1: a build() makes at most two open attempts; a second one is made only
\* after an MMAP stream failed to open while the general policy is not
\* ALWAYS, it is made on a legacy stream, and nothing is opened after it.
C1_AtMostTwoOpens ==
    /\ Len(openLog) <= 2
    /\ Len(createLog) <= 2
    /\ Len(openLog) = 2 =>
          /\ openLog[1].variant \in FastPathVariants
          /\ openLog[1].result # AAUDIO_OK
          /\ mmapPolicy # AAUDIO_POLICY_ALWAYS
          /\ openLog[2].variant \in CompatVariants
          /\ openLog[2].stream # openLog[1].stream

C1_Witness ==
    /\ pc = "done"
    /\ Len(openLog) = 2
    /\ openLog[2].result # AAUDIO_OK

\* C2: when the MMAP stream created first fails to open, legacy is allowed
\* and the legacy open succeeds, build() returns AAUDIO_OK and the handle is
\* the legacy stream of the request's direction, not the failed MMAP object.
C2_FallbackReturnsCompat ==
    ( /\ pc = "done"
      /\ Len(openLog) = 2
      /\ openLog[1].variant \in FastPathVariants
      /\ openLog[1].result # AAUDIO_OK
      /\ mmapPolicy # AAUDIO_POLICY_ALWAYS
      /\ openLog[2].result = AAUDIO_OK )
    => /\ retval = AAUDIO_OK
       /\ outStream = openLog[2].stream
       /\ outStream # openLog[1].stream
       /\ callerPc = "idle" => ~streams[outStream].destroyed
       /\ mDirection = "INPUT" => streams[outStream].variant = "AudioStreamRecord"
       /\ mDirection = "OUTPUT" => streams[outStream].variant = "AudioStreamTrack"

C2_Witness ==
    /\ pc = "done"
    /\ Len(openLog) = 2
    /\ openLog[2].result = AAUDIO_OK
    /\ mDirection = "INPUT"
    /\ retval = AAUDIO_OK

\* C3: an open failure ends build() with that error when (a) the first stream
\* is legacy (nothing else is created), (b) the first stream is MMAP and the
\* policy is ALWAYS (no legacy stream is created), (c) the fallback open
\* fails (the error of the second open is returned).
C3_OpenFailureTerminal ==
    (pc = "done" /\ Len(openLog) >= 1 /\ openLog[1].result # AAUDIO_OK) =>
       /\ openLog[1].variant \in CompatVariants =>
             /\ Len(openLog) = 1 /\ Len(createLog) = 1
             /\ retval = openLog[1].result
       /\ (openLog[1].variant \in FastPathVariants /\ mmapPolicy = AAUDIO_POLICY_ALWAYS) =>
             /\ Len(openLog) = 1 /\ Len(createLog) = 1
             /\ retval = openLog[1].result
       /\ (Len(openLog) = 2 /\ openLog[2].result # AAUDIO_OK) =>
             retval = openLog[2].result

C3_Witness ==
    /\ pc = "done"
    /\ Len(openLog) = 2
    /\ openLog[2].result # AAUDIO_OK
    /\ openLog[1].result # openLog[2].result
    /\ retval = openLog[2].result

\* C4: with an output slot, the slot holds a stream when build() returned
\* AAUDIO_OK and nullptr when it returned an error, whatever it held before.
C4_SlotIffOk ==
    (pc = "done" /\ ~streamPtrIsNull) =>
       /\ (outStream # nullptr) <=> (retval = AAUDIO_OK)
       /\ retval = AAUDIO_OK =>
             /\ outStream \in 1..Len(streams)
             /\ callerPc = "idle" => ~streams[outStream].destroyed
             /\ streams[outStream].opened

C4_Witness ==
    /\ pc = "done"
    /\ ~streamPtrIsNull
    /\ retval \in OpenErrors
    /\ Len(openLog) = 2
    /\ outStream = nullptr

\* C5: no MMAP stream is created or opened unless the performance mode is
\* LOW_LATENCY and the session id is NONE.
C5_FastPathGating ==
    LET gated == mPerformanceMode = "LOW_LATENCY" /\ mSessionId = "SESSION_ID_NONE" IN
    /\ \A i \in 1..Len(streams) : streams[i].variant \in FastPathVariants => gated
    /\ \A i \in 1..Len(createLog) : createLog[i].tryMMap => gated
    /\ \A i \in 1..Len(openLog) : openLog[i].variant \in FastPathVariants => gated

C5_Witness ==
    /\ pc = "done"
    /\ mmapPolicy = AAUDIO_POLICY_AUTO
    /\ mPerformanceMode = "LOW_LATENCY"
    /\ mSessionId = "SESSION_ID_ALLOCATE"
    /\ Len(streams) = 1
    /\ streams[1].variant \in CompatVariants
    /\ retval = AAUDIO_OK

\* The request passed validate() and the decision of lines 178-193 left
\* neither path: the general policy is ALWAYS and MMAP is ruled out.
NoBackendCase ==
    /\ pc = "done"
    /\ mmapPolicy = AAUDIO_POLICY_ALWAYS
    /\ mPerformanceMode # "LOW_LATENCY" \/ mSessionId # "SESSION_ID_NONE"

\* C6 as stated: in the no-backend case build() fails with a code of its own,
\* distinct from the illegal-argument code, and no stream is created or opened.
C6_Original ==
    NoBackendCase =>
       /\ retval \notin {AAUDIO_OK, AAUDIO_ERROR_ILLEGAL_ARGUMENT}
       /\ createLog = <<>> /\ openLog = <<>> /\ streams = <<>>

\* C6 amended: both flags end false exactly when the general policy is ALWAYS
\* and the performance mode is not LOW_LATENCY or a session id is requested;
\* build() then fails with AAUDIO_ERROR_ILLEGAL_ARGUMENT, the code also used
\* for bad enum values, and no stream is created or opened.
C6_NoBackendIllegalArgument ==
    /\ NoBackendCase =>
          /\ ~allowMMap /\ ~allowLegacy
          /\ retval = AAUDIO_ERROR_ILLEGAL_ARGUMENT
          /\ createLog = <<>> /\ openLog = <<>> /\ streams = <<>>
          /\ outStream = nullptr
    /\ (pc = "done" /\ sharingMode # Undeclared /\ ~allowMMap /\ ~allowLegacy)
          => NoBackendCase

C6_Witness ==
    /\ NoBackendCase
    /\ mPerformanceMode = "LOW_LATENCY"
    /\ mSessionId = "SESSION_ID_ALLOCATE"
    /\ retval = AAUDIO_ERROR_ILLEGAL_ARGUMENT

\* What the specification says the reduction of a policy-info list is.
StatedReduction(infos) ==
    IF infos = <<>> THEN AAUDIO_POLICY_AUTO
    ELSE IF \E i, j \in 1..Len(infos) : infos[i] # infos[j] THEN AAUDIO_POLICY_AUTO
    ELSE [d \in AudioMMapPolicy |->
            CASE d = "NEVER" -> AAUDIO_POLICY_NEVER
              [] d = "AUTO" -> AAUDIO_POLICY_AUTO
              [] d = "ALWAYS" -> AAUDIO_POLICY_ALWAYS
              [] d = "UNSPECIFIED" -> AAUDIO_UNSPECIFIED][infos[1]]

\* Provider value, then the hard default "never".
StatedProviderOrDefault(status, infos) ==
    IF status = "NO_ERROR" /\ StatedReduction(infos) # AAUDIO_UNSPECIFIED
    THEN StatedReduction(infos) ELSE AAUDIO_POLICY_NEVER

\* C7: the general policy is the API setting whenever that is not
\* unspecified, whatever the provider answers; otherwise the provider's
\* reduced value; and "never" when that is unavailable or unspecified.
C7_GeneralPrecedence ==
    /\ (mmapPolicy # Undeclared /\ gMMapPolicy # AAUDIO_UNSPECIFIED)
          => mmapPolicy = gMMapPolicy
    /\ (pc = "exclusivePolicy" /\ gMMapPolicy = AAUDIO_UNSPECIFIED)
          => mmapPolicy = StatedProviderOrDefault(providerStatus, policyInfos)

C7_Witness ==
    /\ pc = "exclusivePolicy"
    /\ gMMapPolicy = AAUDIO_POLICY_ALWAYS
    /\ mmapPolicy = AAUDIO_POLICY_ALWAYS
    /\ numDevices = MaxPolicyInfos

\* C8 as stated: the process-level override, when not unspecified, decides
\* the exclusive policy as it decides the general one.
C8_Original ==
    (pc = "decide" /\ gMMapPolicy # AAUDIO_UNSPECIFIED)
       => mmapExclusivePolicy = gMMapPolicy

\* C8 amended: the exclusive policy is the provider's reduced value for the
\* exclusive axis, or "never" when that is unavailable or unspecified; the
\* process-level override does not enter it.
C8_ExclusiveProviderThenDefault ==
    (pc = "decide")
       => mmapExclusivePolicy = StatedProviderOrDefault(providerStatus, policyInfos)

C8_Witness ==
    /\ pc = "decide"
    /\ gMMapPolicy = AAUDIO_POLICY_ALWAYS
    /\ mmapPolicy = AAUDIO_POLICY_ALWAYS
    /\ providerStatus = "NO_ERROR"
    /\ policyInfos = <<"AUTO", "AUTO">>
    /\ mmapExclusivePolicy = AAUDIO_POLICY_AUTO

\* The list the provider returned for the axis resolved last, when there is one.
QueriedInfos ==
    \/ pc = "exclusivePolicy" /\ gMMapPolicy = AAUDIO_UNSPECIFIED
                              /\ providerStatus = "NO_ERROR"
    \/ pc = "decide" /\ providerStatus = "NO_ERROR"

ResolvedFromInfos == IF pc = "decide" THEN mmapExclusivePolicy ELSE mmapPolicy

\* C9: the reduction of a list is AUTO when it is empty or has two differing
\* entries and the common disposition otherwise; a list of UNSPECIFIED
\* entries resolves the axis to "never"; a resolved policy is one of never,
\* auto, always.
C9_ReductionDeterminism ==
    /\ QueriedInfos =>
          /\ getAAudioPolicy(policyInfos) = StatedReduction(policyInfos)
          /\ policyInfos = <<>> => ResolvedFromInfos = AAUDIO_POLICY_AUTO
          /\ (\E i, j \in 1..Len(policyInfos) : policyInfos[i] # policyInfos[j])
                => ResolvedFromInfos = AAUDIO_POLICY_AUTO
          /\ (policyInfos # <<>> /\ \A i \in 1..Len(policyInfos) : policyInfos[i] = "NEVER")
                => ResolvedFromInfos = AAUDIO_POLICY_NEVER
          /\ (policyInfos # <<>> /\ \A i \in 1..Len(policyInfos) : policyInfos[i] = "AUTO")
                => ResolvedFromInfos = AAUDIO_POLICY_AUTO
          /\ (policyInfos # <<>> /\ \A i \in 1..Len(policyInfos) : policyInfos[i] = "ALWAYS")
                => ResolvedFromInfos = AAUDIO_POLICY_ALWAYS
          /\ (policyInfos # <<>> /\ \A i \in 1..Len(policyInfos) : policyInfos[i] = "UNSPECIFIED")
                => /\ getAAudioPolicy(policyInfos) = AAUDIO_UNSPECIFIED
                   /\ ResolvedFromInfos = AAUDIO_POLICY_NEVER
    /\ mmapPolicy \in
          {Undeclared, AAUDIO_POLICY_NEVER, AAUDIO_POLICY_AUTO, AAUDIO_POLICY_ALWAYS}
    /\ mmapExclusivePolicy \in
          {Undeclared, AAUDIO_POLICY_NEVER, AAUDIO_POLICY_AUTO, AAUDIO_POLICY_ALWAYS}

C9_Witness ==
    /\ pc = "decide"
    /\ providerStatus = "NO_ERROR"
    /\ policyInfos = <<"NEVER", "NEVER", "ALWAYS">>
    /\ mmapExclusivePolicy = AAUDIO_POLICY_AUTO

\* C10: once the exclusive policy has resolved to "never", the request's
\* sharing mode reads SHARED from the decision on, so after build() returns
\* with success or with failure, and SHARED is what stream creation is given.
C10_SharingDowngrade ==
    /\ (pc \notin {"start", "mmapPolicy", "exclusivePolicy", "decide"}
            /\ mmapExclusivePolicy = AAUDIO_POLICY_NEVER)
          => /\ mSharingMode = "SHARED"
             /\ \A i \in 1..Len(createLog) : createLog[i].sharingMode = "SHARED"
    /\ loggedUseShared =>
          /\ mmapExclusivePolicy = AAUDIO_POLICY_NEVER
          /\ mSharingMode = "SHARED"
    /\ \A i \in 1..Len(createLog) : createLog[i].sharingMode = mSharingMode

C10_Witness ==
    /\ pc = "done"
    /\ loggedUseShared
    /\ mSharingMode = "SHARED"
    /\ retval \in OpenErrors
    /\ Len(createLog) = 2
    /\ createLog[2].sharingMode = "SHARED"

(* ---------------------------------------------------------------------- *)
(* C11, C19: privacy inference (lines 200-211)                             *)
(* ---------------------------------------------------------------------- *)

\* build() has gone through lines 200-211.
PrivacyInferred == pc = "create" \/ createLog # <<>>

CapturePresets == {"CAMCORDER", "VOICE_COMMUNICATION"}

\* C11: with the privacy request left unspecified, once build() has inferred
\* the privacy flag the flag is true exactly when the direction is capture
\* and the input preset is camcorder or voice communication; a playback
\* request with such a preset ends with the flag false.
C11_PrivacyDefaultNeedsCapture ==
    (PrivacyInferred /\ mPrivacySensitiveReq = "PRIVACY_SENSITIVE_DEFAULT")
        => (mPrivacySensitive <=>
                (mDirection = "INPUT" /\ mInputPreset \in CapturePresets))

\* C19: an explicit privacy request decides the flag for every preset and
\* direction: enabled gives true, disabled gives false, whatever the flag
\* held before the call.
C19_ExplicitPrivacyOverrides ==
    PrivacyInferred =>
        /\ mPrivacySensitiveReq = "PRIVACY_SENSITIVE_ENABLED" => mPrivacySensitive
        /\ mPrivacySensitiveReq = "PRIVACY_SENSITIVE_DISABLED" => ~mPrivacySensitive
        /\ mPrivacySensitive = PrivacySensitive(mPrivacySensitiveReq, mInputPreset)

\* A capture request with the camcorder preset and privacy disabled went
\* through the inference and ended with the flag false.
C19_Witness ==
    /\ pc = "done"
    /\ PrivacyInferred
    /\ mPrivacySensitiveReq = "PRIVACY_SENSITIVE_DISABLED"
    /\ mInputPreset = "CAMCORDER"
    /\ mDirection = "INPUT"
    /\ ~mPrivacySensitive

(* ---------------------------------------------------------------------- *)
(* C12: side effects of the early error exits (lines 142-145, 170-198)     *)
(* ---------------------------------------------------------------------- *)

\* build() was given a slot and validate() rejects the request.
ValidatorFails ==
    /\ ~streamPtrIsNull
    /\ validate(mDirection, paramsResult, mPerformanceMode,
                mFramesPerDataCallback) # AAUDIO_OK

ValidatorExit == pc = "done" /\ ValidatorFails

\* No stream object was created, opened, registered or logged.
NoStreamWork ==
    /\ streams = <<>>
    /\ createLog = <<>>
    /\ openLog = <<>>
    /\ audioStream = nullptr

\* The program points of build() up to the no-backend test of line 195; both
\* early error exits are reached through these points only.
BeforeInference == {"start", "mmapPolicy", "exclusivePolicy", "decide"}

\* C12 as stated: at a validator exit and at the no-backend exit the sharing
\* mode and the privacy flag are what they were before the call, and no
\* stream was created, opened, registered or logged.
C12_Original ==
    /\ []((ValidatorExit \/ NoBackendCase) => (NoStreamWork /\ ~loggedUseShared))
    /\ [][(pc \in BeforeInference => mPrivacySensitive' = mPrivacySensitive)]_vars

\* C12, amended: at a validator exit the request is untouched; at the
\* no-backend exit the privacy flag is untouched and the sharing mode is
\* untouched unless an EXCLUSIVE request was downgraded to SHARED because the
\* exclusive policy is NEVER; at both exits no stream was created, opened,
\* registered or logged.
C12_ErrorExitEffects ==
    /\ []((ValidatorExit \/ NoBackendCase) => NoStreamWork)
    /\ [](ValidatorExit => ~loggedUseShared)
    /\ [](ValidatorFails => pc \in {"start", "done"})
    /\ [][(pc = "start" => request' = request)]_vars
    /\ [][(pc \in BeforeInference =>
             /\ mPrivacySensitive' = mPrivacySensitive
             /\ mSharingMode' # mSharingMode =>
                    /\ pc = "decide"
                    /\ mSharingMode = "EXCLUSIVE"
                    /\ mSharingMode' = "SHARED"
                    /\ mmapExclusivePolicy = AAUDIO_POLICY_NEVER)]_vars

\* The no-backend exit taken after the EXCLUSIVE request was downgraded.
C12_Witness ==
    /\ NoBackendCase
    /\ retval = AAUDIO_ERROR_ILLEGAL_ARGUMENT
    /\ loggedUseShared
    /\ mSharingMode = "SHARED"
    /\ NoStreamWork

(* ---------------------------------------------------------------------- *)
(* C13, C14, C20: strong references (lines 213-254)                        *)
(* ---------------------------------------------------------------------- *)

\* The references stopUsingStream() accounts for at each of its points: the
\* caller's own, plus the temporary sp between lines 251 and 254.
CallerRefs ==
    CASE callerPc = "idle" -> 1
      [] callerPc \in {"counted", "logged"} -> 2
      [] callerPc = "decremented" -> 1
      [] callerPc = "released" -> 0

HolderRefs == IF holderPc = "holding" THEN 1 ELSE 0

\* C13: at the handoff of a successful build() the strong count is 2; once
\* build() has returned, the caller's handle is the one remaining reference
\* and the object is alive until the check-in; stopUsingStream() takes the
\* count down by exactly one, so with no other holder it reaches zero and
\* the object is deleted exactly once.
C13_ReferenceSymmetry ==
    /\ (pc = "return" /\ result = AAUDIO_OK) =>
           /\ outStream = audioStream
           /\ streams[audioStream].strong = 2
    /\ (CallerHasHandle /\ callerPc = "idle") =>
           /\ streams[outStream].strong = 1 + HolderRefs
           /\ ~streams[outStream].destroyed
    /\ (CallerHasHandle /\ callerPc = "released") =>
           /\ streams[outStream].strong = HolderRefs
           /\ holderPc # "holding" =>
                  /\ streams[outStream].strong = 0
                  /\ streams[outStream].destroyed
                  /\ streams[outStream].deletes = 1

\* The caller checked the stream in with no other holder: count zero, one
\* deletion.
C13_Witness ==
    /\ CallerHasHandle
    /\ callerPc = "released"
    /\ holderPc = "none"
    /\ streams[outStream].strong = 0
    /\ streams[outStream].deletes = 1

\* C14: when build() has returned, every stream object it created other
\* than the one in the slot has strong count zero and is deleted (once); a
\* fast-path object replaced during the fallback is deleted by the
\* replacement; at most one created object outlives the call.
C14_NoLeakedStreams ==
    /\ pc = "done" =>
           \A i \in 1..Len(streams) :
               i # outStream =>
                   /\ streams[i].strong = 0
                   /\ streams[i].destroyed
                   /\ streams[i].deletes = 1
    /\ Len(streams) = 2 => (streams[1].destroyed /\ streams[1].strong = 0)
    /\ pc = "done" =>
           Cardinality({i \in 1..Len(streams) : ~streams[i].destroyed}) <= 1

\* build() failed after the fallback: both objects are gone.
C14_Witness ==
    /\ pc = "done"
    /\ retval # AAUDIO_OK
    /\ Len(streams) = 2
    /\ streams[1].destroyed
    /\ streams[2].destroyed
    /\ outStream = nullptr

\* C20: while stopUsingStream() runs on one thread and another holder drops
\* its reference on another, in every interleaving of the atomic count
\* operations the strong count is never negative, the object is never
\* accessed after its deletion, and it is deleted exactly once, by the
\* operation that takes the count to zero, whichever thread that is.
C20_ConcurrentRelease ==
    /\ \A i \in 1..Len(streams) :
           /\ streams[i].strong >= 0
           /\ ~streams[i].zombie
           /\ streams[i].deletes <= 1
           /\ streams[i].destroyed <=> (streams[i].deletes = 1)
    /\ CallerHasHandle =>
           /\ streams[outStream].strong = CallerRefs + HolderRefs
           /\ streams[outStream].destroyed <=> (CallerRefs + HolderRefs = 0)

\* The other holder dropped its reference in the middle of stopUsingStream().
C20_Witness ==
    /\ CallerHasHandle
    /\ callerPc = "logged"
    /\ holderPc = "released"
    /\ streams[outStream].strong = 2
    /\ ~streams[outStream].destroyed

(* ---------------------------------------------------------------------- *)
(* C15: registerPlayerBase() and logOpenActual() (lines 228-233)           *)
(* ---------------------------------------------------------------------- *)

Registered == {i \in 1..Len(streams) : streams[i].registered > 0}
Logged == {i \in 1..Len(streams) : streams[i].logged > 0}

\* C15: in one build() registerPlayerBase() and logOpenActual() are each
\* called at most once, only on an object whose open() succeeded, the log
\* after the registration and both before the handle is written to the slot;
\* when build() has returned they have been called exactly when it returned
\* AAUDIO_OK, and on the returned object.
C15_SuccessEffectsOnce ==
    /\ \A i \in 1..Len(streams) :
           /\ streams[i].registered <= 1
           /\ streams[i].logged <= 1
           /\ streams[i].registered > 0 => streams[i].opened
           /\ streams[i].logged > 0 => streams[i].registered > 0
    /\ Cardinality(Registered) <= 1
    /\ Cardinality(Logged) <= 1
    /\ outStream \in 1..Len(streams) =>
           (Registered = {outStream} /\ Logged = {outStream})
    /\ pc = "done" =>
           /\ retval = AAUDIO_OK <=> Registered # {}
           /\ retval = AAUDIO_OK <=> Logged # {}
           /\ retval = AAUDIO_OK => outStream \in 1..Len(streams)

\* build() succeeded through the fallback: the failed fast-path object was
\* neither registered nor logged, the returned one was, once each.
C15_Witness ==
    /\ pc = "done"
    /\ retval = AAUDIO_OK
    /\ Len(streams) = 2
    /\ outStream = 2
    /\ streams[1].registered = 0 /\ streams[1].logged = 0
    /\ streams[2].registered = 1 /\ streams[2].logged = 1

(* ---------------------------------------------------------------------- *)
(* C16: the first stream created (lines 178-214, 65-96)                    *)
(* ---------------------------------------------------------------------- *)

InputVariants == {"AudioStreamInternalCapture", "AudioStreamRecord"}
OutputVariants == {"AudioStreamInternalPlay", "AudioStreamTrack"}

\* C16: a request that passes validation and does not end at the no-backend
\* exit gets a first stream; that stream is a fast-path variant exactly when
\* the general policy is not NEVER, the performance mode is low latency and
\* the session id is none, and a compatibility variant otherwise; its
\* direction is the request's.
C16_FirstAttemptChoice ==
    /\ Len(streams) >= 1 =>
           /\ streams[1].variant \in FastPathVariants <=>
                  /\ mmapPolicy # AAUDIO_POLICY_NEVER
                  /\ mPerformanceMode = "LOW_LATENCY"
                  /\ mSessionId = "SESSION_ID_NONE"
           /\ streams[1].variant \in FastPathVariants \cup CompatVariants
           /\ mDirection = "INPUT" => streams[1].variant \in InputVariants
           /\ mDirection = "OUTPUT" => streams[1].variant \in OutputVariants
           /\ mDirection \in {"INPUT", "OUTPUT"}
    /\ (/\ ~streamPtrIsNull
        /\ ~ValidatorFails
        /\ ~NoBackendCase
        /\ pc \notin BeforeInference \cup {"privacy", "create"}) => Len(streams) >= 1

\* A capture request with policy AUTO, low latency and an allocated session
\* id: the first stream is the compatibility capture stream.
C16_Witness ==
    /\ Len(streams) >= 1
    /\ mmapPolicy = AAUDIO_POLICY_AUTO
    /\ mPerformanceMode = "LOW_LATENCY"
    /\ mSessionId = "SESSION_ID_ALLOCATE"
    /\ mDirection = "INPUT"
    /\ streams[1].variant = "AudioStreamRecord"

(* ---------------------------------------------------------------------- *)
(* C17: failed provider queries (lines 147-179)                            *)
(* ---------------------------------------------------------------------- *)

\* C17: a failed provider query is never build()'s return value. With no
\* explicit override a failed general query resolves the general policy to
\* NEVER, and a failed exclusive query resolves the exclusive policy to
\* NEVER; with the general policy NEVER no fast-path stream is created and
\* build() goes on to the compatibility path, and with the exclusive policy
\* NEVER an EXCLUSIVE request is downgraded to SHARED.
C17_ProviderFailureAbsorbed ==
    /\ retval \notin ProviderStatus
    /\ result \notin ProviderStatus
    /\ (/\ pc = "exclusivePolicy"
        /\ gMMapPolicy = AAUDIO_UNSPECIFIED
        /\ providerStatus = "FAILED") => mmapPolicy = AAUDIO_POLICY_NEVER
    /\ (pc = "decide" /\ providerStatus = "FAILED") =>
           mmapExclusivePolicy = AAUDIO_POLICY_NEVER
    /\ mmapPolicy = AAUDIO_POLICY_NEVER =>
           /\ \A i \in 1..Len(streams) : streams[i].variant \in CompatVariants
           /\ \A i \in 1..Len(createLog) : ~createLog[i].tryMMap
           /\ pc = "done" => Len(streams) = 1
    /\ (sharingMode # Undeclared /\ mmapExclusivePolicy = AAUDIO_POLICY_NEVER) =>
           (sharingMode = "SHARED" /\ mSharingMode = "SHARED")

\* No override and no device, so only failed queries can give NEVER on both
\* axes: the EXCLUSIVE request was downgraded and build() returned a
\* compatibility stream.
C17_Witness ==
    /\ pc = "done"
    /\ gMMapPolicy = AAUDIO_UNSPECIFIED
    /\ numDevices = 0
    /\ mmapPolicy = AAUDIO_POLICY_NEVER
    /\ mmapExclusivePolicy = AAUDIO_POLICY_NEVER
    /\ providerStatus = "FAILED"
    /\ loggedUseShared
    /\ retval = AAUDIO_OK
    /\ streams[outStream].variant \in CompatVariants

(* ---------------------------------------------------------------------- *)
(* C18: validate() (lines 256-286)                                         *)
(* ---------------------------------------------------------------------- *)

\* The result the claim states for a request whose inherited validation
\* passes.
StatedValidate(performanceMode, frames) ==
    IF performanceMode \notin {"NONE", "POWER_SAVING", "LOW_LATENCY"}
    THEN AAUDIO_ERROR_ILLEGAL_ARGUMENT
    ELSE IF frames # 0 /\ (frames < 1 \/ frames > 1048576)
    THEN AAUDIO_ERROR_OUT_OF_RANGE
    ELSE AAUDIO_OK

\* C18: when the inherited validation passes, validate() gives
\* IllegalArgument for a performance mode other than none, power saving and
\* low latency; otherwise OutOfRange for a frames-per-callback value that
\* is not 0 and lies outside [1, 1048576]; otherwise OK. build() returns
\* that error at once, or goes on when it is OK.
C18_ValidatorResult ==
    (/\ pc # "start"
     /\ ~streamPtrIsNull
     /\ ParamsValidate(mDirection, paramsResult) = AAUDIO_OK) =>
        LET expected == StatedValidate(mPerformanceMode, mFramesPerDataCallback) IN
        /\ validate(mDirection, paramsResult, mPerformanceMode,
                    mFramesPerDataCallback) = expected
        /\ expected # AAUDIO_OK =>
               (pc = "done" /\ retval = expected /\ mmapPolicy = Undeclared)
        /\ expected = AAUDIO_OK => (pc = "mmapPolicy" \/ mmapPolicy # Undeclared)

\* The upper limit itself is accepted and build() went on to a stream.
C18_Witness ==
    /\ pc = "done"
    /\ mFramesPerDataCallback = 1048576
    /\ mPerformanceMode = "POWER_SAVING"
    /\ retval = AAUDIO_OK

====
